---- MODULE Spec2Model ----
(***************************************************************************)
(* trace-log-comparer: the indexing pass of main(), State's windowed line  *)
(* access, the positional character diff and the diff navigator.           *)
(*                                                                         *)
(* A String is a sequence of UTF-8 bytes.  Bytes are "a" (an ASCII         *)
(* letter), "\n" (the line terminator) and the pair "C3","A9" (the         *)
(* two-byte encoding of one character), so that a byte offset and a        *)
(* character index are different numbers.  A char is the sequence of the   *)
(* bytes that encode it.                                                   *)
(***************************************************************************)
EXTENDS Integers, Sequences, FiniteSets, TLC

\* ---------------------------------------------------------------- bounds
MaxFileChars == 3
MaxLongExtra == 1
MaxLineChars == 4
MaxNavChars == 3
MaxRepeatChars == 2
MaxCenter == 5
MaxCount == 4
MaxSpanChars == 3
\* i32::MAX
I32Max == 2147483647
\* let mut extra_line_count = 20;
ExtraLines == 20

\* ------------------------------------------------------- strings and chars
NL == "\n"
\* Option<T>: None is the empty set, Some(x) the set of x alone
None == {}
Some(x) == {x}
unwrap(o) == CHOOSE x \in o : TRUE

Min(S) == CHOOSE x \in S : \A y \in S : x <= y
Max(S) == CHOOSE x \in S : \A y \in S : x >= y

Alphabet == { <<"a">>, <<"C3", "A9">>, <<NL>> }

RECURSIVE Encode(_)
\* the bytes of a sequence of chars
Encode(cs) == IF cs = <<>> THEN <<>> ELSE Head(cs) \o Encode(Tail(cs))

CharSeqs(n) == UNION { [1..k -> Alphabet] : k \in 0..n }

BlankFile(n) == [i \in 1..n |-> NL]

\* the files the indexing pass is run on: every text of at most MaxFileChars
\* characters, and files of more than ExtraLines empty lines
Files ==
    { Encode(cs) : cs \in CharSeqs(MaxFileChars) }
        \cup { BlankFile(ExtraLines + k) : k \in 1..MaxLongExtra }

RECURSIVE chars(_)
\* str::chars: one element per character; a lead byte takes its continuation
chars(s) ==
    IF s = <<>> THEN <<>>
    ELSE IF Head(s) = "C3"
         THEN <<SubSeq(s, 1, 2)>> \o chars(SubSeq(s, 3, Len(s)))
    ELSE IF Head(s) = "E4"
         THEN <<SubSeq(s, 1, 3)>> \o chars(SubSeq(s, 4, Len(s)))
         ELSE << <<Head(s)>> >> \o chars(Tail(s))

\* BufRead::read_line on a reader positioned at byte `pos` of `file`: the
\* bytes up to and including the next "\n", or up to end of stream
read_line(file, pos) ==
    LET rest == SubSeq(file, pos + 1, Len(file))
        nls  == { i \in 1..Len(rest) : rest[i] = NL }
    IN  IF nls = {} THEN rest ELSE SubSeq(rest, 1, Min(nls))

\* Itertools::zip_longest
zip_longest(a, b) ==
    [i \in 1..(IF Len(a) >= Len(b) THEN Len(a) ELSE Len(b)) |->
        IF i <= Len(a) /\ i <= Len(b) THEN [tag |-> "Both", l |-> a[i], r |-> b[i]]
        ELSE IF i <= Len(a) THEN [tag |-> "Left", l |-> a[i]]
        ELSE [tag |-> "Right", r |-> b[i]]]

\* ------------------------------------------------------------------ state
VARIABLES
    pc,                    \* where the program is
    file1, file2,          \* the contents of the two files
    line_index,
    file1_line_positions, file2_line_positions,
    first_diff_positions,
    line1, line2,          \* main: the lines of the current iteration
    file1_offset, file2_offset,
    extra_line_count,
    summary,               \* the line main prints after the loop
    first_diff,            \* State::first_diff
    arg_line1, arg_line2,  \* calculate_line_diffs: its two arguments
    diffs,                 \* calculate_line_diffs: the Vec it returns, once it has
    line_diffs,            \* State::line_diffs
    cursor,                \* the caller's (line, char offset) cursor
    nav_dir,               \* which of find_next_diff, find_prev_diff the caller repeats
    nav_call,              \* the last navigation call: its arguments and outcome
    window,                \* the last get_lines_around_line call: arguments and result
    longest_line_length,   \* State::longest_line_length
    selected_line,         \* State::selected_line
    file1_spans, file2_spans,            \* State: one Spans per loaded line
    file1_list_lines, file2_list_lines,  \* State: the Spans of each ListItem
    arg_spans, arg_offset, \* spans_substring: its two arguments
    spans_call             \* spans_substring: the Spans it returns, once it has

mainVars == <<file1, file2, line_index, file1_line_positions, file2_line_positions,
              first_diff_positions, line1, line2, file1_offset, file2_offset,
              extra_line_count, summary>>

diffVars == <<arg_line1, arg_line2, diffs>>

navVars == <<line_diffs, cursor, nav_dir, nav_call>>

viewVars == <<longest_line_length, selected_line, file1_spans, file2_spans,
              file1_list_lines, file2_list_lines>>

spansVars == <<arg_spans, arg_offset, spans_call>>

vars == <<pc, mainVars, first_diff, diffVars, navVars, window, viewVars, spansVars>>

\* nothing is loaded and no navigation has been asked for
NavIdle ==
    /\ line_diffs = <<>> /\ cursor = <<0, 0>> /\ nav_dir = "" /\ nav_call = None
    /\ window = None
    /\ longest_line_length = 0 /\ selected_line = 0
    /\ file1_spans = <<>> /\ file2_spans = <<>>
    /\ file1_list_lines = <<>> /\ file2_list_lines = <<>>
    /\ arg_spans = <<>> /\ arg_offset = 0 /\ spans_call = None

\* no call of calculate_line_diffs is in progress
DiffIdle == arg_line1 = <<>> /\ arg_line2 = <<>> /\ diffs = None

\* ------------------------------------------------------ main: indexing pass
\* the closure find_offset: the index of the first pair of characters that
\* differ or of the first character one line has and the other has not
find_offset(l1, l2) ==
    LET z == zip_longest(chars(l1), chars(l2))
        d == { i \in 1..Len(z) : z[i].tag # "Both" \/ z[i].l # z[i].r }
    IN  IF d = {} THEN 0 ELSE Min(d) - 1

DiffPosition(li, lo, o1, o2) ==
    [line_index |-> li, line_offset |-> lo, file1_offset |-> o1, file2_offset |-> o2]

\* lines 31-47: the locals before the loop, after the first two reads
InitMain(f1, f2) ==
    /\ pc = "loop"
    /\ file1 = f1
    /\ file2 = f2
    /\ line_index = 0
    /\ file1_line_positions = <<>>
    /\ file2_line_positions = <<>>
    /\ first_diff_positions = None
    /\ file1_offset = 0
    /\ file2_offset = 0
    /\ extra_line_count = ExtraLines
    /\ line1 = read_line(f1, 0)
    /\ line2 = read_line(f2, 0)
    /\ summary = ""
    /\ first_diff = None

Init == (\E f1 \in Files, f2 \in Files : InitMain(f1, f2)) /\ DiffIdle /\ NavIdle

\* if *line1_length == 0 || *line2_length == 0
AtEof == Len(line1) = 0 \/ Len(line2) = 0

BudgetAfter_both_ended ==
    IF Len(line1) = 0 /\ Len(line2) = 0 THEN extra_line_count - 1 ELSE extra_line_count

\* lines 51-58: the budget after an iteration that does not break
BudgetAfter == IF AtEof THEN extra_line_count - 1 ELSE extra_line_count

RecordedDiff_late ==
    IF line1 # line2
    THEN Some(DiffPosition(line_index, find_offset(line1, line2), file1_offset, file2_offset))
    ELSE first_diff_positions

\* lines 60-88: the first difference is recorded once
RecordedDiff ==
    IF line1 # line2 /\ first_diff_positions = None
    THEN Some(DiffPosition(line_index, find_offset(line1, line2), file1_offset, file2_offset))
    ELSE first_diff_positions

Pushed_always(positions, line, offset) == Append(positions, offset)

\* lines 90-96: an offset is pushed for a file that produced a line
Pushed(positions, line, offset) ==
    IF Len(line) > 0 THEN Append(positions, offset) ELSE positions

\* one iteration of the while loop that reaches its end (lines 49-108)
LoopIter ==
    /\ pc = "loop"
    /\ ~(AtEof /\ extra_line_count = 0)
    /\ extra_line_count' = BudgetAfter
    /\ first_diff_positions' = RecordedDiff
    /\ file1_line_positions' = Pushed(file1_line_positions, line1, file1_offset)
    /\ file2_line_positions' = Pushed(file2_line_positions, line2, file2_offset)
    /\ file1_offset' = file1_offset + Len(line1)
    /\ file2_offset' = file2_offset + Len(line2)
    /\ line_index' = line_index + 1
    /\ line1' = read_line(file1, file1_offset')
    /\ line2' = read_line(file2, file2_offset')
    /\ UNCHANGED <<pc, file1, file2, summary, first_diff, diffVars, navVars, window, viewVars, spansVars>>

\* the iteration that breaks (line 56)
LoopBreak ==
    /\ pc = "loop"
    /\ AtEof /\ extra_line_count = 0
    /\ pc' = "summary"
    /\ UNCHANGED <<mainVars, first_diff, diffVars, navVars, window, viewVars, spansVars>>

\* lines 122-128
Summary(line1_length, line2_length) ==
    IF line1_length = 0 /\ line2_length = 0 THEN "Both files are the same length"
    ELSE IF line1_length = 0 THEN "File 2 is longer"
    ELSE "File 1 is longer"

\* lines 110-128: the length summary
PrintSummary ==
    /\ pc = "summary"
    /\ summary' = Summary(Len(line1), Len(line2))
    /\ pc' = "new"
    /\ UNCHANGED <<file1, file2, line_index, file1_line_positions, file2_line_positions,
                   first_diff_positions, line1, line2, file1_offset, file2_offset,
                   extra_line_count, first_diff, diffVars, navVars, window, viewVars, spansVars>>

\* State::new (main.rs line 130): the indices and the readers move into State
NewState ==
    /\ pc = "new"
    /\ first_diff' = first_diff_positions
    /\ pc' = "app"
    /\ UNCHANGED <<mainVars, diffVars, navVars, window, viewVars, spansVars>>

\* State::read_line_at_offset without the seek: the read starts where the
\* indexing pass left the reader
read_line_at_offset_noseek(file1_selected, offset) ==
    IF file1_selected THEN read_line(file1, file1_offset) ELSE read_line(file2, file2_offset)

\* State::read_line_at_offset: seek to the offset, read one line
read_line_at_offset(file1_selected, offset) ==
    IF file1_selected THEN read_line(file1, offset) ELSE read_line(file2, offset)

\* ------------------------------------------- what the claims speak about
RECURSIVE LineEndsFrom(_, _)
\* the bytes at which the lines of a file end, in order: every terminator, and
\* the last byte of a file whose last line has no terminator
LineEndsFrom(f, i) ==
    IF i > Len(f) THEN <<>>
    ELSE IF f[i] = NL \/ i = Len(f) THEN <<i>> \o LineEndsFrom(f, i + 1)
    ELSE LineEndsFrom(f, i + 1)

LineEnds(f) == LineEndsFrom(f, 1)

NumLines(f) == Len(LineEnds(f))

\* the byte offset at which line i (0-based) of f begins
LineStart(f, i) == IF i = 0 THEN 0 ELSE LineEnds(f)[i]

\* line i (0-based) of f, terminator included
LineOf(f, i) == SubSeq(f, LineStart(f, i) + 1, LineEnds(f)[i + 1])

PairedLines == IF NumLines(file1) <= NumLines(file2) THEN NumLines(file1) ELSE NumLines(file2)

DifferingPairs == { i \in 0..(PairedLines - 1) : LineOf(file1, i) # LineOf(file2, i) }

\* the index of the first character at which two different lines differ, or
\* the number of characters of the shorter when it is a prefix of the other
FirstMismatch(a, b) ==
    LET ca == chars(a)
        cb == chars(b)
        n  == IF Len(ca) <= Len(cb) THEN Len(ca) ELSE Len(cb)
        d  == { k \in 1..n : ca[k] # cb[k] }
    IN  IF d = {} THEN n ELSE Min(d) - 1

PassDone == pc \in {"summary", "new", "app"}

\* C1: when some paired line differs, the pass records, from the iteration of
\* the first such line on and for good, the DiffPosition of the smallest
\* differing index, with the first mismatching character index (the length of
\* the shorter line when it is a prefix) and the byte offsets at which that
\* line starts in each file.
C1_FirstDiffRecorded ==
    DifferingPairs # {} =>
        LET i == Min(DifferingPairs) IN
        (PassDone \/ line_index > i) =>
            first_diff_positions =
                Some(DiffPosition(i,
                                  FirstMismatch(LineOf(file1, i), LineOf(file2, i)),
                                  LineStart(file1, i),
                                  LineStart(file2, i)))

\* a finished pass over files whose second line pair is the first to differ,
\* one line being a prefix of the other, with a later pair differing as well
C1_Witness ==
    /\ pc = "app"
    /\ Cardinality(DifferingPairs) >= 1
    /\ Min(DifferingPairs) >= 1
    /\ unwrap(first_diff).line_offset >= 1
    /\ unwrap(first_diff).file1_offset >= 1

\* C2: the summary names the file that has more lines, and says the files are
\* the same length only when they have the same number of lines.
C2_SummaryNamesLongerFile ==
    pc \in {"new", "app"} =>
        /\ NumLines(file2) > NumLines(file1) => summary = "File 2 is longer"
        /\ NumLines(file1) > NumLines(file2) => summary = "File 1 is longer"
        /\ summary = "Both files are the same length" => NumLines(file1) = NumLines(file2)

\* C3: identical files of N lines leave no DiffPosition and N entries in each
\* line-offset index.
C3_IdenticalFiles ==
    (PassDone /\ file1 = file2) =>
        /\ first_diff_positions = None
        /\ Len(file1_line_positions) = NumLines(file1)
        /\ Len(file2_line_positions) = NumLines(file2)

C3_Witness ==
    /\ pc = "app"
    /\ file1 = file2
    /\ NumLines(file1) >= 2
    /\ first_diff = None

IndexSound(file1_selected, f, positions) ==
    LET ends  == LineEnds(f)
        start == [i \in 0..(Len(ends) - 1) |-> IF i = 0 THEN 0 ELSE ends[i]]
        \* the byte lengths of the lines, and the sums of the first i of them
        len   == [i \in 0..(Len(ends) - 1) |-> ends[i + 1] - start[i]]
        sum[i \in 0..Len(ends)] == IF i = 0 THEN 0 ELSE sum[i - 1] + len[i - 1]
    IN  /\ Len(positions) <= Len(ends)
        /\ \A i \in 0..(Len(positions) - 1) :
            /\ positions[i + 1] = start[i]
            /\ positions[i + 1] = sum[i]
            /\ read_line_at_offset(file1_selected, positions[i + 1])
                   = SubSeq(f, start[i] + 1, ends[i + 1])
        /\ \A i \in 1..(Len(positions) - 1) : positions[i] <= positions[i + 1]

\* C4: entry i of each index is the byte offset at which line i begins (the
\* sum of the byte lengths of the lines before it), the entries never
\* decrease, and read_line_at_offset at entry i returns line i.
C4_IndexEntries ==
    /\ IndexSound(TRUE, file1, file1_line_positions)
    /\ IndexSound(FALSE, file2, file2_line_positions)

\* both indices hold several lines, one of them after a two-byte character
C4_Witness ==
    /\ pc = "app"
    /\ Len(file1_line_positions) >= 2
    /\ Len(file2_line_positions) >= 2
    /\ Len(file1_line_positions) # Len(file2_line_positions)
    /\ \E i \in 1..Len(file1_line_positions) :
           file1_line_positions[i] > Len(chars(SubSeq(file1, 1, file1_line_positions[i])))


Next == LoopIter \/ LoopBreak \/ PrintSummary \/ NewState

Spec == Init /\ [][Next]_vars

\* ------------------------------------------------ State::calculate_line_diffs
\* enum DiffSection
Added(s) == [kind |-> "Added", text |-> s]
Modified(l, r) == [kind |-> "Modified", left |-> l, right |-> r]
Same(s) == [kind |-> "Same", text |-> s]
Removed(s) == [kind |-> "Removed", text |-> s]

merge_diff_keep_modified(acc, new_diff) ==
    IF acc.last_diff = None
    THEN [last_diff |-> Some(new_diff), diffs |-> acc.diffs]
    ELSE LET inner_last_diff == unwrap(acc.last_diff) IN
         IF inner_last_diff.kind = new_diff.kind /\ new_diff.kind # "Modified"
         THEN [last_diff |-> Some([inner_last_diff EXCEPT !.text = @ \o new_diff.text]),
               diffs |-> acc.diffs]
         ELSE [last_diff |-> Some(new_diff), diffs |-> Append(acc.diffs, inner_last_diff)]

\* the closure merge_diff, on the pair it works on: the pending last_diff and
\* the completed diffs
merge_diff(acc, new_diff) ==
    IF acc.last_diff = None
    THEN [last_diff |-> Some(new_diff), diffs |-> acc.diffs]
    ELSE LET inner_last_diff == unwrap(acc.last_diff) IN
         IF inner_last_diff.kind = new_diff.kind /\ new_diff.kind # "Modified"
         THEN [last_diff |-> Some([inner_last_diff EXCEPT !.text = @ \o new_diff.text]),
               diffs |-> acc.diffs]
         ELSE IF inner_last_diff.kind = "Modified" /\ new_diff.kind = "Modified"
         THEN [last_diff |-> Some(Modified(inner_last_diff.left \o new_diff.left,
                                           inner_last_diff.right \o new_diff.right)),
               diffs |-> acc.diffs]
         ELSE [last_diff |-> Some(new_diff), diffs |-> Append(acc.diffs, inner_last_diff)]

\* lines 220-240: the section one step of the zip contributes
Classified(combined_chars) ==
    IF combined_chars.tag = "Both"
    THEN IF combined_chars.l = combined_chars.r
         THEN Same(combined_chars.l)
         ELSE Modified(combined_chars.l, combined_chars.r)
    ELSE IF combined_chars.tag = "Left" THEN Removed(combined_chars.l)
    ELSE Added(combined_chars.r)

RECURSIVE MergeAll(_, _)
\* lines 219-241: merge_diff over the sections in order
MergeAll(acc, sections) ==
    IF sections = <<>> THEN acc
    ELSE MergeAll(merge_diff(acc, Head(sections)), Tail(sections))

Finished_dropping_last(acc) == acc.diffs

\* lines 243-247: the pending section is pushed last
Finished(acc) ==
    IF acc.last_diff # None THEN Append(acc.diffs, unwrap(acc.last_diff)) ELSE acc.diffs

calculate_line_diffs(l1, l2) ==
    LET z == zip_longest(chars(l1), chars(l2))
    IN  Finished(MergeAll([last_diff |-> None, diffs |-> <<>>],
                          [i \in 1..Len(z) |-> Classified(z[i])]))

\* the lines read_line returns: not empty, a terminator only at the end
LineStrings(n) ==
    { Encode(cs) : cs \in { c \in CharSeqs(n) :
          /\ Len(c) >= 1
          /\ \A i \in 1..(Len(c) - 1) : c[i] # <<NL>> } }

\* main has not run: no file is open
MainIdle ==
    /\ file1 = <<>> /\ file2 = <<>>
    /\ line_index = 0
    /\ file1_line_positions = <<>> /\ file2_line_positions = <<>>
    /\ first_diff_positions = None
    /\ line1 = <<>> /\ line2 = <<>>
    /\ file1_offset = 0 /\ file2_offset = 0
    /\ extra_line_count = ExtraLines
    /\ summary = ""
    /\ first_diff = None

InitDiff ==
    /\ pc = "diff"
    /\ arg_line1 \in LineStrings(MaxLineChars)
    /\ arg_line2 \in LineStrings(MaxLineChars)
    /\ diffs = None
    /\ MainIdle
    /\ NavIdle

\* one call of calculate_line_diffs
CalculateLineDiffs ==
    /\ pc = "diff"
    /\ diffs' = Some(calculate_line_diffs(arg_line1, arg_line2))
    /\ pc' = "diffed"
    /\ UNCHANGED <<mainVars, first_diff, arg_line1, arg_line2, navVars, window, viewVars, spansVars>>

NextDiff == CalculateLineDiffs

SpecDiff == InitDiff /\ [][NextDiff]_vars

RECURSIVE LeftText(_)
\* the Same, Modified-left and Removed text of a section sequence, in order
LeftText(ds) ==
    IF ds = <<>> THEN <<>>
    ELSE (CASE Head(ds).kind = "Modified" -> Head(ds).left
            [] Head(ds).kind \in {"Same", "Removed"} -> Head(ds).text
            [] OTHER -> <<>>) \o LeftText(Tail(ds))

RECURSIVE RightText(_)
\* the Same, Modified-right and Added text of a section sequence, in order
RightText(ds) ==
    IF ds = <<>> THEN <<>>
    ELSE (CASE Head(ds).kind = "Modified" -> Head(ds).right
            [] Head(ds).kind \in {"Same", "Added"} -> Head(ds).text
            [] OTHER -> <<>>) \o RightText(Tail(ds))

\* C5: the sections returned for two lines put together again give the left
\* line (Same, Modified left, Removed) and the right line (Same, Modified
\* right, Added).
C5_DiffReconstructs ==
    diffs # None =>
        /\ LeftText(unwrap(diffs)) = arg_line1
        /\ RightText(unwrap(diffs)) = arg_line2

\* lines of different lengths with equal and unequal characters
C5_Witness ==
    /\ diffs # None
    /\ Len(unwrap(diffs)) >= 3
    /\ \E i \in 1..Len(unwrap(diffs)) : unwrap(diffs)[i].kind = "Modified"
    /\ \E i \in 1..Len(unwrap(diffs)) : unwrap(diffs)[i].kind = "Same"
    /\ \E i \in 1..Len(unwrap(diffs)) : unwrap(diffs)[i].kind \in {"Added", "Removed"}

\* C6: no two adjacent sections of the result have the same kind, and the
\* merge step run over the result gives the result again.
C6_NoAdjacentSameKind ==
    diffs # None =>
        LET ds == unwrap(diffs) IN
        /\ \A i \in 1..(Len(ds) - 1) : ds[i].kind # ds[i + 1].kind
        /\ Finished(MergeAll([last_diff |-> None, diffs |-> <<>>], ds)) = ds

\* a result in which runs of two characters were merged into one section
C6_Witness ==
    /\ diffs # None
    /\ \E i \in 1..Len(unwrap(diffs)) :
           /\ unwrap(diffs)[i].kind = "Modified"
           /\ Len(chars(unwrap(diffs)[i].left)) >= 2
    /\ Len(unwrap(diffs)) >= 2

\* ------------------------------------------------------ State::calculate_diffs
calculate_diffs_paired_only(file1_lines, file2_lines) ==
    [i \in 1..Min({Len(file1_lines), Len(file2_lines)}) |->
        calculate_line_diffs(file1_lines[i], file2_lines[i])]

calculate_diffs(file1_lines, file2_lines) ==
    LET z == zip_longest(file1_lines, file2_lines)
    IN  [i \in 1..Len(z) |->
            IF z[i].tag = "Both" THEN calculate_line_diffs(z[i].l, z[i].r)
            ELSE IF z[i].tag = "Left" THEN <<Removed(z[i].l)>>
            ELSE <<Added(z[i].r)>>]

\* ---------------------------------- State::find_next_diff, State::find_prev_diff
left_len_of_right(diff) ==
    IF diff.kind = "Modified" THEN Len(diff.right) ELSE Len(diff.text)

\* DiffSection::left_len: String::len is a number of bytes
left_len(diff) ==
    IF diff.kind = "Modified" THEN Len(diff.left) ELSE Len(diff.text)

\* the match arms of lines 273-275 and 303-305
IsChange(diff) == diff.kind \in {"Added", "Modified", "Removed"}

\* a slice out of range panics; otherwise the function returns an Option
Panicked == [panicked |-> TRUE, value |-> None]
Returned(v) == [panicked |-> FALSE, value |-> v]

IsNextDiff_or_equal(line_offset, line_number, match_line, match_offset) ==
    line_offset >= match_offset \/ line_number > match_line

\* line 276
IsNextDiff(line_offset, line_number, match_line, match_offset) ==
    line_offset > match_offset \/ line_number > match_line

RECURSIVE NextInLine(_, _, _, _, _, _)
\* lines 271-285: the sections of one line from the k-th on, line_offset being
\* the sum of left_len over the sections before it
NextInLine(row, k, line_offset, line_number, match_line, match_offset) ==
    IF k > Len(row) THEN None
    ELSE IF IsChange(row[k]) /\ IsNextDiff(line_offset, line_number, match_line, match_offset)
         THEN Some(<<line_number, line_offset>>)
         ELSE NextInLine(row, k + 1, line_offset + left_len(row[k]),
                         line_number, match_line, match_offset)

RECURSIVE NextFromLine(_, _, _)
\* lines 266-286: the lines from line_number on
NextFromLine(line_number, match_line, match_offset) ==
    IF line_number >= Len(line_diffs) THEN None
    ELSE LET found == NextInLine(line_diffs[line_number + 1], 1, 0,
                                 line_number, match_line, match_offset)
         IN  IF found # None THEN found
             ELSE NextFromLine(line_number + 1, match_line, match_offset)

find_next_diff(match_line, match_offset) ==
    IF match_line > Len(line_diffs) THEN Panicked
    ELSE Returned(NextFromLine(match_line, match_line, match_offset))

\* line 306
IsPrevDiff(line_offset, line_number, match_line, match_offset) ==
    line_offset < match_offset \/ line_number < match_line

RECURSIVE line_width(_)
\* lines 293-297
line_width(row) == IF row = <<>> THEN 0 ELSE left_len(Head(row)) + line_width(Tail(row))

RECURSIVE PrevInLine(_, _, _, _, _, _)
\* lines 301-315: the sections of one line from the k-th back to the first
PrevInLine(row, k, line_offset, line_number, match_line, match_offset) ==
    IF k < 1 THEN None
    ELSE IF IsChange(row[k]) /\ IsPrevDiff(line_offset, line_number, match_line, match_offset)
         THEN Some(<<line_number, line_offset>>)
         ELSE PrevInLine(row, k - 1, line_offset - left_len(row[k]),
                         line_number, match_line, match_offset)

RECURSIVE PrevFromLine(_, _, _)
\* lines 292-316: the lines of line_diffs[..match_line] from line_number back
PrevFromLine(line_number, match_line, match_offset) ==
    IF line_number < 0 THEN None
    ELSE LET row   == line_diffs[line_number + 1]
             found == PrevInLine(row, Len(row), line_width(row),
                                 line_number, match_line, match_offset)
         IN  IF found # None THEN found
             ELSE PrevFromLine(line_number - 1, match_line, match_offset)

find_prev_diff(match_line, match_offset) ==
    IF match_line > Len(line_diffs) THEN Panicked
    ELSE Returned(PrevFromLine(match_line - 1, match_line, match_offset))

\* the lines of a file, in order
AllLines(f) == [i \in 1..NumLines(f) |-> LineOf(f, i - 1)]

NavFiles == { Encode(cs) : cs \in CharSeqs(MaxNavChars) }
RepeatFiles == { Encode(cs) : cs \in CharSeqs(MaxRepeatChars) }

\* the widest line of the table, in left_len units
TableWidth(table) == Max({0} \cup { line_width(table[i]) : i \in 1..Len(table) })

\* a table diffed from the lines of two files, a cursor in it or just past it,
\* and a caller that keeps asking for the next, or for the previous, change
InitNavOver(files) ==
    /\ pc = "nav"
    /\ \E f1 \in files, f2 \in files :
           line_diffs = calculate_diffs(AllLines(f1), AllLines(f2))
    /\ cursor \in (0..(Len(line_diffs) + 1)) \X (0..(TableWidth(line_diffs) + 1))
    /\ nav_dir \in {"next", "prev"}
    /\ nav_call = None
    /\ window = None
    /\ longest_line_length = 0 /\ selected_line = 0
    /\ file1_spans = <<>> /\ file2_spans = <<>>
    /\ file1_list_lines = <<>> /\ file2_list_lines = <<>>
    /\ arg_spans = <<>> /\ arg_offset = 0 /\ spans_call = None
    /\ MainIdle
    /\ DiffIdle

InitNav == InitNavOver(NavFiles)

InitNavRepeat == InitNavOver(RepeatFiles)

\* what a call leaves behind: the call, and the cursor moved to the position
\* returned, or left where it was on None
AfterCall(fn, outcome) ==
    /\ nav_call' = Some([fn |-> fn, match_line |-> cursor[1], match_offset |-> cursor[2],
                         panicked |-> outcome.panicked, value |-> outcome.value])
    /\ cursor' = IF outcome.value # None THEN unwrap(outcome.value) ELSE cursor
    /\ pc' = IF outcome.panicked THEN "panicked" ELSE "nav"
    /\ UNCHANGED <<mainVars, first_diff, diffVars, line_diffs, nav_dir, window, viewVars, spansVars>>

FindNextDiff ==
    /\ pc = "nav"
    /\ nav_dir = "next"
    /\ AfterCall("find_next_diff", find_next_diff(cursor[1], cursor[2]))

FindPrevDiff ==
    /\ pc = "nav"
    /\ nav_dir = "prev"
    /\ AfterCall("find_prev_diff", find_prev_diff(cursor[1], cursor[2]))

NextNav == FindNextDiff \/ FindPrevDiff

SpecNav == InitNav /\ [][NextNav]_vars

\* the caller goes on calling
SpecNavFair == InitNavRepeat /\ [][NextNav]_vars /\ WF_vars(NextNav)

\* the byte length of the text a section has on the left side
LeftSideLength(d) == Len(LeftText(<<d>>))

RECURSIVE RunningOffset(_, _)
\* the sum of the left-side lengths of the sections before the k-th of a line
RunningOffset(row, k) ==
    IF k <= 1 THEN 0 ELSE RunningOffset(row, k - 1) + LeftSideLength(row[k - 1])

\* the changed sections of the table: <<line, section index>>
Changes ==
    UNION { { <<l, k>> : k \in { j \in 1..Len(line_diffs[l + 1]) :
                                    IsChange(line_diffs[l + 1][j]) } } :
            l \in 0..(Len(line_diffs) - 1) }

OffsetOf(c) == RunningOffset(line_diffs[c[1] + 1], c[2])

InTableOrder(c, d) == c[1] < d[1] \/ (c[1] = d[1] /\ c[2] <= d[2])

FirstOf(C) == CHOOSE c \in C : \A d \in C : InTableOrder(c, d)
LastOf(C) == CHOOSE c \in C : \A d \in C : InTableOrder(d, c)

\* the changed sections beyond the cursor
ChangesAfter(from_line, from_char_offset) ==
    { c \in Changes : \/ c[1] = from_line /\ OffsetOf(c) > from_char_offset
                      \/ c[1] > from_line }

\* the changed sections before the cursor
ChangesBefore(from_line, from_char_offset) ==
    { c \in Changes : \/ c[1] = from_line /\ OffsetOf(c) < from_char_offset
                      \/ c[1] < from_line }

CallOf(fn) == nav_call # None /\ unwrap(nav_call).fn = fn /\ ~unwrap(nav_call).panicked

\* C7: what find_next_diff returns is the line and running offset of the first
\* changed section, in table order, on from_line beyond from_char_offset or on
\* a later line, and None exactly when there is none.
C7_FindNextDiff ==
    CallOf("find_next_diff") =>
        LET call == unwrap(nav_call)
            C    == ChangesAfter(call.match_line, call.match_offset)
        IN  call.value = IF C = {} THEN None
                         ELSE Some(<<FirstOf(C)[1], OffsetOf(FirstOf(C))>>)

\* a call from inside a line that skipped a changed section at or before the
\* cursor and returned a later one of the same line
C7_Witness ==
    /\ CallOf("find_next_diff")
    /\ unwrap(nav_call).value # None
    /\ unwrap(nav_call).match_offset >= 1
    /\ unwrap(unwrap(nav_call).value)[1] = unwrap(nav_call).match_line
    /\ \E c \in Changes : c[1] = unwrap(nav_call).match_line
                          /\ OffsetOf(c) <= unwrap(nav_call).match_offset

\* C8: what find_prev_diff returns is the last changed section before the
\* cursor: one on from_line whose offset is less than from_char_offset, else
\* the last one of the nearest earlier line; None only when there is none.
\* (The offset it reports may be that of either end of the section.)
C8_FindPrevDiff ==
    CallOf("find_prev_diff") =>
        LET call == unwrap(nav_call)
            C    == ChangesBefore(call.match_line, call.match_offset)
        IN  /\ call.value = None <=> C = {}
            /\ call.value # None =>
                   LET c == LastOf(C)
                       section == line_diffs[c[1] + 1][c[2]]
                   IN  /\ unwrap(call.value)[1] = c[1]
                       /\ unwrap(call.value)[2] \in
                              {OffsetOf(c), OffsetOf(c) + left_len(section)}

LexLeq(p, q) == p[1] < q[1] \/ (p[1] = q[1] /\ p[2] <= q[2])

\* every position a call returns is at or after the cursor it was given for
\* find_next_diff, at or before it for find_prev_diff
NavInOrder ==
    (nav_call # None /\ unwrap(nav_call).value # None) =>
        LET call == unwrap(nav_call)
            from == <<call.match_line, call.match_offset>>
        IN  /\ call.fn = "find_next_diff" => LexLeq(from, unwrap(call.value))
            /\ call.fn = "find_prev_diff" => LexLeq(unwrap(call.value), from)

ReturnedNone ==
    nav_call # None /\ ~unwrap(nav_call).panicked /\ unwrap(nav_call).value = None

\* C9: a caller that starts with its cursor inside the table and keeps calling
\* find_next_diff (find_prev_diff) from the position last returned gets
\* positions in non-decreasing (non-increasing) order and, after finitely
\* many calls, None.
C9_RepeatedCallsEnd ==
    /\ []NavInOrder
    /\ (cursor[1] < Len(line_diffs)) => <>ReturnedNone

\* the call from the last of several changed sections returns None
C9_Witness ==
    /\ ReturnedNone
    /\ unwrap(nav_call).fn = "find_next_diff"
    /\ Cardinality(Changes) >= 2
    /\ cursor = <<LastOf(Changes)[1], OffsetOf(LastOf(Changes))>>
    /\ Len(line_diffs) >= 2

\* ------------------------------------------------ State::get_lines_around_line
\* `usize as i32`, for a usize below 2^32: the same 32 bits read as a signed
\* number, which is x - 2^32 from 2^31 on
as_i32(x) == IF x <= I32Max THEN x ELSE ((x - I32Max) - I32Max) - 2

BottomLineIndex_unhalved(center_line_index, line_count) ==
    LET bottom_line_index == as_i32(center_line_index) - as_i32(line_count)
    IN  IF bottom_line_index > 0 THEN bottom_line_index ELSE 0

\* lines 127-133
BottomLineIndex(center_line_index, line_count) ==
    LET bottom_line_index == as_i32(center_line_index) - as_i32(line_count \div 2)
    IN  IF bottom_line_index > 0 THEN bottom_line_index ELSE 0

RECURSIVE LinesFrom(_, _, _, _)
\* lines 140-156, for one of the two files: the line at each index from i up
\* to top_line_index that the file's index has
LinesFrom(i, top_line_index, file1_selected, positions) ==
    IF i >= top_line_index THEN <<>>
    ELSE (IF i < Len(positions)
          THEN <<read_line_at_offset(file1_selected, positions[i + 1])>>
          ELSE <<>>)
         \o LinesFrom(i + 1, top_line_index, file1_selected, positions)

get_lines_around_line(center_line_index, line_count) ==
    LET bottom_line_index == BottomLineIndex(center_line_index, line_count)
        top_line_index    == bottom_line_index + line_count
    IN  <<LinesFrom(bottom_line_index, top_line_index, TRUE, file1_line_positions),
          LinesFrom(bottom_line_index, top_line_index, FALSE, file2_line_positions)>>

\* a call of get_lines_around_line on the State main built.  The call leaves
\* State as it was (every read seeks first), so a later call sees what the
\* first one saw: one call per run
GetLinesAroundLine ==
    /\ pc = "app"
    /\ window = None
    /\ \E center_line_index \in 0..MaxCenter, line_count \in 0..MaxCount :
           window' = Some([line_index |-> center_line_index, line_count |-> line_count,
                           lines |-> get_lines_around_line(center_line_index, line_count)])
    /\ UNCHANGED <<pc, mainVars, first_diff, diffVars, navVars, viewVars, spansVars>>

NextWindow == Next \/ GetLinesAroundLine

SpecWindow == Init /\ [][NextWindow]_vars

\* the lines of f with the indices lo, lo + 1, ..., hi - 1
LinesBetween(f, lo, hi) ==
    [k \in 1..(IF hi > lo THEN hi - lo ELSE 0) |-> LineOf(f, lo + k - 1)]

Least(a, b) == IF a <= b THEN a ELSE b

\* C10: for each file the window is the lines with the indices from bottom
\* up to, not including, the smaller of bottom + count and the length of the
\* file's index, in order, bottom being the larger of 0 and
\* center - count / 2; so neither has more than count entries.
C10_Window ==
    window # None =>
        LET w      == unwrap(window)
            half   == w.line_count \div 2
            bottom == IF w.line_index - half > 0 THEN w.line_index - half ELSE 0
            top    == bottom + w.line_count
        IN  /\ w.lines[1] = LinesBetween(file1, bottom, Least(top, Len(file1_line_positions)))
            /\ w.lines[2] = LinesBetween(file2, bottom, Least(top, Len(file2_line_positions)))
            /\ Len(w.lines[1]) <= w.line_count
            /\ Len(w.lines[2]) <= w.line_count

\* a window that starts above line 0, is cut short by the end of file 1, and
\* holds more lines of file 2
C10_Witness ==
    /\ window # None
    /\ unwrap(window).line_index > unwrap(window).line_count \div 2
    /\ Len(unwrap(window).lines[1]) >= 1
    /\ Len(unwrap(window).lines[1]) < Len(unwrap(window).lines[2])
    /\ Len(unwrap(window).lines[2]) < unwrap(window).line_count

\* ------------------------------------------ the indexing pass, further claims
Most(a, b) == IF a >= b THEN a ELSE b

\* C11 as stated: a recorded DiffPosition's line_index is an index into both
\* files' line-offset indices.
C11_LineIndexInBothIndices ==
    (PassDone /\ first_diff_positions # None) =>
        /\ unwrap(first_diff_positions).line_index < Len(file1_line_positions)
        /\ unwrap(first_diff_positions).line_index < Len(file2_line_positions)

\* C11, amended: a recorded line_index is an index into the longer of the two
\* indices and is at most the length of the shorter; it is an index into both
\* exactly when a line that both files have differs.
C11_LineIndexInLongerIndex ==
    (PassDone /\ first_diff_positions # None) =>
        LET li == unwrap(first_diff_positions).line_index
            n1 == Len(file1_line_positions)
            n2 == Len(file2_line_positions)
        IN  /\ li < Most(n1, n2)
            /\ li <= Least(n1, n2)
            /\ li < Least(n1, n2) <=> DifferingPairs # {}

\* file 1 ends where file 2 goes on: the position recorded is one past the
\* last entry of file 1's index
C11_Witness ==
    /\ pc = "app"
    /\ first_diff # None
    /\ DifferingPairs = {}
    /\ unwrap(first_diff).line_index = Len(file1_line_positions)
    /\ unwrap(first_diff).line_index >= 2
    /\ unwrap(first_diff).line_index < Len(file2_line_positions)

\* C12: the shorter file's index has one entry for each of its lines, the
\* longer file's has one for each line up to ExtraLines lines past the end of
\* the shorter.
C12_ExtraLinesBounded ==
    PassDone =>
        LET n1 == NumLines(file1)
            n2 == NumLines(file2)
        IN  /\ n1 <= n2 => /\ Len(file1_line_positions) = n1
                           /\ Len(file2_line_positions) = Least(n2, n1 + ExtraLines)
            /\ n2 <= n1 => /\ Len(file2_line_positions) = n2
                           /\ Len(file1_line_positions) = Least(n1, n2 + ExtraLines)

\* file 2 goes on for more than ExtraLines lines after file 1 ended
C12_Witness ==
    /\ pc = "app"
    /\ NumLines(file2) > NumLines(file1) + ExtraLines
    /\ Len(file2_line_positions) = NumLines(file1) + ExtraLines
    /\ summary = "File 2 is longer"

\* ------------------------------------------------- spans and State::build_state
\* a character two terminal columns wide (U+4E16)
WideChar == <<"E4", "B8", "96">>

\* the columns unicode-width gives "\n": none in its older releases, one in
\* its newer ones; the repository does not pin the release
ControlWidths == {0, 1}

char_width(c, control_width) ==
    IF c = <<NL>> THEN control_width ELSE IF c = WideChar THEN 2 ELSE 1

RECURSIVE SumWidths(_, _)
SumWidths(cs, control_width) ==
    IF cs = <<>> THEN 0
    ELSE char_width(Head(cs), control_width) + SumWidths(Tail(cs), control_width)

\* Span::width: the display width of the content, in terminal columns
width(span, control_width) == SumWidths(chars(span.content), control_width)

RECURSIVE SpansWidth(_, _)
\* Spans::width: the sum of the widths of the spans
SpansWidth(spans, control_width) ==
    IF spans = <<>> THEN 0
    ELSE width(Head(spans), control_width) + SpansWidth(Tail(spans), control_width)

\* StringUtils::slice(start..): the string from its character `start` on
slice(content, start) ==
    LET cs == chars(content)
    IN  Encode(SubSeq(cs, start + 1, Len(cs)))

Span(content, style) == [content |-> content, style |-> style]

RECURSIVE SpansFrom(_, _, _)
\* the filter_map closure over the spans left, required_offset being the
\* closure's captured counter
SpansFrom(spans, required_offset, control_width) ==
    IF spans = <<>> THEN <<>>
    ELSE LET span == Head(spans)
         IN  IF required_offset = 0
             THEN <<span>> \o SpansFrom(Tail(spans), 0, control_width)
             ELSE IF required_offset < width(span, control_width)
             THEN <<Span(slice(span.content, required_offset), span.style)>>
                      \o SpansFrom(Tail(spans), 0, control_width)
             ELSE SpansFrom(Tail(spans),
                            required_offset - width(span, control_width), control_width)

spans_substring(spans, horizontal_offset, control_width) ==
    SpansFrom(spans, horizontal_offset, control_width)

RECURSIVE LineSpans(_, _)
\* lines 341-373: the spans one row of sections gives file 1 (left) or file 2
LineSpans(row, left) ==
    IF row = <<>> THEN <<>>
    ELSE LET diff == Head(row)
         IN  (CASE diff.kind = "Added" ->
                       IF left THEN <<>> ELSE <<Span(diff.text, "added")>>
                [] diff.kind = "Modified" ->
                       <<Span(IF left THEN diff.left ELSE diff.right, "modified")>>
                [] diff.kind = "Same" -> <<Span(diff.text, "raw")>>
                [] diff.kind = "Removed" ->
                       IF left THEN <<Span(diff.text, "removed")>> ELSE <<>>)
             \o LineSpans(Tail(row), left)

build_spans(table) ==
    <<[i \in 1..Len(table) |-> LineSpans(table[i], TRUE)],
      [i \in 1..Len(table) |-> LineSpans(table[i], FALSE)]>>

longest_line_length_of(file1_lines, file2_lines) ==
    Max({0} \cup { Len(file1_lines[i]) : i \in 1..Len(file1_lines) }
            \cup { Len(file2_lines[i]) : i \in 1..Len(file2_lines) })

RECURSIVE Decimal(_)
\* the decimal digits of n
Decimal(n) ==
    IF n < 10 THEN <<(<<"0", "1", "2", "3", "4", "5", "6", "7", "8", "9">>)[n + 1]>>
    ELSE Decimal(n \div 10) \o Decimal(n % 10)

\* lines 411-417: the number, right-aligned in 8 columns unless it is longer,
\* and a space
number_string(n) ==
    LET digits == Decimal(n)
    IN  IF Len(digits) + 1 <= 9
        THEN [i \in 1..(8 - Len(digits)) |-> " "] \o digits \o <<" ">>
        ELSE digits \o <<" ">>

\* lines 386-402
add_left_placeholder(spans, original_length, control_width) ==
    IF original_length = 0 THEN <<Span(<<"E", "O", "F">>, "dim")>>
    ELSE IF SpansWidth(spans, control_width) = 0 THEN <<Span(<<"<", "=", "=">>, "dim")>>
    ELSE spans

\* lines 404-430
process_spans_into_lines(spans, horizontal_offset, start_line_number, control_width) ==
    [i \in 1..Len(spans) |->
        <<Span(number_string(start_line_number + (i - 1)), "dim")>>
            \o add_left_placeholder(
                   spans_substring(spans[i], horizontal_offset, control_width),
                   SpansWidth(spans[i], control_width), control_width)]

build_lines(spans1, spans2, horizontal_offset, start_line_number, control_width) ==
    <<process_spans_into_lines(spans1, horizontal_offset, start_line_number, control_width),
      process_spans_into_lines(spans2, horizontal_offset, start_line_number, control_width)>>

\* lines 89-101, for a window of lines_to_load lines: the centre line, the
\* raw lines, the table and the spans of the two files
Loaded(lines_to_load) ==
    LET center == IF first_diff # None THEN unwrap(first_diff).line_index ELSE 0
        raw    == get_lines_around_line(center, lines_to_load)
        table  == calculate_diffs(raw[1], raw[2])
    IN  [center |-> center, raw |-> raw, table |-> table, spans |-> build_spans(table)]

\* State::build_state on the State main built, in a build with either width
\* of "\n"
BuildState ==
    /\ pc = "app"
    /\ \E lines_to_load \in 0..MaxCount :
         \E loaded \in {Loaded(lines_to_load)} :
             /\ selected_line' = IF first_diff # None THEN loaded.center
                                 ELSE selected_line
             /\ window' = Some([line_index |-> loaded.center,
                                line_count |-> lines_to_load, lines |-> loaded.raw])
             /\ longest_line_length' =
                    longest_line_length_of(loaded.raw[1], loaded.raw[2])
             /\ line_diffs' = loaded.table
             /\ file1_spans' = loaded.spans[1]
             /\ file2_spans' = loaded.spans[2]
             /\ \E control_width \in ControlWidths :
                  \E lines \in {build_lines(loaded.spans[1], loaded.spans[2], 0, 1,
                                            control_width)} :
                      /\ file1_list_lines' = lines[1]
                      /\ file2_list_lines' = lines[2]
    /\ pc' = "built"
    /\ UNCHANGED <<mainVars, first_diff, diffVars, cursor, nav_dir, nav_call, spansVars>>

NextBuild == Next \/ BuildState

SpecBuild == Init /\ [][NextBuild]_vars

\* C13: the table has an entry for every index either sequence of lines has:
\* the sections of the two lines where both have one, one Removed section
\* with the left line where only the left has one, one Added section with the
\* right line where only the right has one.
C13_CalculateDiffs ==
    pc = "built" =>
        LET lines1 == unwrap(window).lines[1]
            lines2 == unwrap(window).lines[2]
        IN  /\ Len(line_diffs) = Most(Len(lines1), Len(lines2))
            /\ \A i \in 1..Len(line_diffs) :
                   line_diffs[i] =
                       IF i <= Len(lines1) /\ i <= Len(lines2)
                       THEN calculate_line_diffs(lines1[i], lines2[i])
                       ELSE IF i <= Len(lines1)
                       THEN <<[kind |-> "Removed", text |-> lines1[i]]>>
                       ELSE <<[kind |-> "Added", text |-> lines2[i]]>>

\* a table with rows for paired lines and, after them, rows for lines only
\* file 1 has
C13_Witness ==
    /\ pc = "built"
    /\ Len(unwrap(window).lines[2]) >= 1
    /\ Len(unwrap(window).lines[1]) > Len(unwrap(window).lines[2])
    /\ line_diffs[Len(line_diffs)][1].kind = "Removed"
\* the lines the two files have at index i, as one-line sequences: empty
\* where the file has no such line
LinePairAt(i) ==
    <<IF i < NumLines(file1) THEN <<LineOf(file1, i)>> ELSE <<>>,
      IF i < NumLines(file2) THEN <<LineOf(file2, i)>> ELSE <<>> >>

\* C16 as stated: after build_state on a State that has a first difference,
\* for a window of at least one line, selected_line is a row of line_diffs,
\* that row is the diff of the two files' lines at the first difference's
\* line index, and neither find_next_diff nor find_prev_diff called with
\* selected_line panics.
C16_SelectedLineInTable ==
    (pc = "built" /\ first_diff # None /\ unwrap(window).line_count >= 1) =>
        /\ selected_line = unwrap(first_diff).line_index
        /\ selected_line < Len(line_diffs)
        /\ line_diffs[selected_line + 1] =
               calculate_diffs(LinePairAt(selected_line)[1], LinePairAt(selected_line)[2])[1]
        /\ ~find_next_diff(selected_line, 0).panicked
        /\ ~find_prev_diff(selected_line, 0).panicked
\* ------------------------------------- find_next_diff against find_prev_diff
\* the cursors from which find_next_diff selects the changed section c
CursorsSelecting(c) ==
    { from \in (0..Len(line_diffs)) \X (0..TableWidth(line_diffs)) :
          /\ ChangesAfter(from[1], from[2]) # {}
          /\ FirstOf(ChangesAfter(from[1], from[2])) = c }

\* C15 as stated: the position find_prev_diff returns for the changed section
\* it selects (the last one on the lines it scans) is that section's line and
\* the sum of the left-side lengths of the sections before it on the line,
\* and is what find_next_diff returns whenever it selects the same section.
C15_SamePosition ==
    (CallOf("find_prev_diff") /\ unwrap(nav_call).value # None) =>
        LET call == unwrap(nav_call)
            c    == LastOf({ d \in Changes : d[1] < call.match_line })
        IN  /\ call.value = Some(<<c[1], OffsetOf(c)>>)
            /\ \A from \in CursorsSelecting(c) :
                   find_next_diff(from[1], from[2]).value = call.value
\* ------------------------------------------------------------ spans_substring
SpanAlphabet == { <<"a">>, WideChar, <<NL>> }

\* lines of at most n characters, some of them two columns wide
WideLineStrings(n) ==
    { Encode(cs) : cs \in { c \in UNION { [1..k -> SpanAlphabet] : k \in 1..n } :
          \A i \in 1..(Len(c) - 1) : c[i] # <<NL>> } }

\* the spans build_spans makes for either file from the sections of a pair of
\* lines, and a horizontal offset up to past the widest of them
InitSpans ==
    /\ pc = "spans"
    /\ \E l1 \in WideLineStrings(MaxSpanChars), l2 \in WideLineStrings(MaxSpanChars) :
           LET spans == build_spans(<<calculate_line_diffs(l1, l2)>>)
           IN  arg_spans \in {spans[1][1], spans[2][1]}
    /\ arg_offset \in 0..(2 * MaxSpanChars + 1)
    /\ spans_call = None
    /\ line_diffs = <<>> /\ cursor = <<0, 0>> /\ nav_dir = "" /\ nav_call = None
    /\ window = None
    /\ longest_line_length = 0 /\ selected_line = 0
    /\ file1_spans = <<>> /\ file2_spans = <<>>
    /\ file1_list_lines = <<>> /\ file2_list_lines = <<>>
    /\ MainIdle
    /\ DiffIdle

\* one call of spans_substring, in a build with either width of "\n"
SpansSubstring ==
    /\ pc = "spans"
    /\ \E control_width \in ControlWidths :
           spans_call' = Some([control_width |-> control_width,
                               spans |-> spans_substring(arg_spans, arg_offset,
                                                         control_width)])
    /\ pc' = "spanned"
    /\ UNCHANGED <<mainVars, first_diff, diffVars, navVars, window, viewVars,
                   arg_spans, arg_offset>>

NextSpans == SpansSubstring

SpecSpans == InitSpans /\ [][NextSpans]_vars

RECURSIVE SpansText(_)
\* the contents of the spans, put together
SpansText(spans) ==
    IF spans = <<>> THEN <<>> ELSE Head(spans).content \o SpansText(Tail(spans))

RECURSIVE FromCharacter(_, _)
\* the spans from character offset k on: those wholly before it dropped, the
\* one it falls inside cut to its part from k on, the later ones as they are
FromCharacter(spans, k) ==
    IF spans = <<>> THEN <<>>
    ELSE LET span == Head(spans)
             n    == Len(chars(span.content))
         IN  IF k = 0 THEN spans
             ELSE IF k < n
             THEN <<[content |-> Encode(SubSeq(chars(span.content), k + 1, n)),
                     style |-> span.style]>> \o Tail(spans)
             ELSE FromCharacter(Tail(spans), k - n)

\* C14 as stated: spans_substring(sections, k) is the sections from character
\* offset k on, and their text is the text of the sections without its first
\* k characters (empty when k is at or past the end).
C14_SpansSubstring ==
    spans_call # None =>
        LET result == unwrap(spans_call).spans
            text   == chars(SpansText(arg_spans))
        IN  /\ result = FromCharacter(arg_spans, arg_offset)
            /\ SpansText(result) = Encode(SubSeq(text, arg_offset + 1, Len(text)))

====
